---- MODULE Spec2Model ----
(***************************************************************************)
(* A model of the HTTP transport bridge of ducklings                       *)
(* (src/src/http/http_wasm.cpp): the client HTTPWasmClient, its dispatch   *)
(* routines DoRequest / DoHeadRequest, the host primitives                 *)
(* em_sync_request / em_sync_head_request, the malloc/free heap the        *)
(* argument buffers live in, and the pure codecs (URL normalisation,       *)
(* length-prefixed wire buffer, response-header block); and of the Arrow   *)
(* IPC ingestion helper duckdb_wasm_insert_arrow_ipc                       *)
(* (src/src/arrow/arrow_ipc_insert.cpp).                                   *)
(*                                                                         *)
(* Strings are std::string / char buffers: sequences of byte codes 0..255. *)
(***************************************************************************)
EXTENDS Integers, Sequences, FiniteSets, TLC

VARIABLES
    host_port,      \* HTTPWasmClient::host_port
    use_sync_xhr,   \* HTTPWasmClient::use_sync_xhr (the transport mode)
    constructed,    \* has the constructor run
    probe_calls,    \* number of calls of em_has_xhr() so far
    heap,           \* the malloc heap: address -> block or NoBlock
    disp,           \* the dispatches (calls of Get/Head/Post/Put/Delete) in flight
    buffer_out,     \* the caller's PostRequestInfo::buffer_out
    calls,          \* number of dispatches started so far
    host_has_xhr,   \* the host environment: is XMLHttpRequest defined
    fn_op,          \* pure-function harness: which function is applied
    fn_arg,         \* pure-function harness: its input
    fn_ret,         \* pure-function harness: its result
    arrow           \* the Arrow IPC ingestion helper: the catalog and its last call

vars == <<host_port, use_sync_xhr, constructed, probe_calls, heap, disp,
          buffer_out, calls, host_has_xhr, fn_op, fn_arg, fn_ret, arrow>>

clientVars == <<host_port, use_sync_xhr, constructed, probe_calls, heap, disp,
                buffer_out, calls, host_has_xhr>>

fnVars == <<fn_op, fn_arg, fn_ret>>

arrowVars == <<arrow>>

-----------------------------------------------------------------------------
(* Bounds of the model *)

\* dispatches that may be suspended at the host call at the same time
MaxInFlight == 2

\* dispatches started in one behaviour
MaxCalls == 2

\* longest payload of the wire-buffer round trip
MaxPayloadLen == 4

\* most header pairs of the header-block round trip
MaxHeaderPairs == 2

-----------------------------------------------------------------------------
(* Characters and strings *)

Digits == <<"0", "1", "2", "3", "4", "5", "6", "7", "8", "9">>

Upper == <<"A", "B", "C", "D", "E", "F", "G", "H", "I", "J", "K", "L", "M",
           "N", "O", "P", "Q", "R", "S", "T", "U", "V", "W", "X", "Y", "Z">>

Lower == <<"a", "b", "c", "d", "e", "f", "g", "h", "i", "j", "k", "l", "m",
           "n", "o", "p", "q", "r", "s", "t", "u", "v", "w", "x", "y", "z">>

IndexOf(c, table) == CHOOSE i \in 1..Len(table) : table[i] = c

InTable(c, table) == \E i \in 1..Len(table) : table[i] = c

\* the byte code (ASCII) of a character
Ord(c) ==
    CASE c = "CR" -> 13
      [] c = "LF" -> 10
      [] c = " " -> 32
      [] c = "-" -> 45
      [] c = "." -> 46
      [] c = "/" -> 47
      [] c = ":" -> 58
      [] InTable(c, Digits) -> 47 + IndexOf(c, Digits)
      [] InTable(c, Upper) -> 64 + IndexOf(c, Upper)
      [] InTable(c, Lower) -> 96 + IndexOf(c, Lower)

\* the std::string written as the tuple of its characters
S(t) == [i \in 1..Len(t) |-> Ord(t[i])]

Pow2(n) == 2 ^ n

\* a | b on non-negative integers
RECURSIVE BitOr(_, _)
BitOr(a, b) ==
    IF a = 0 THEN b
    ELSE IF b = 0 THEN a
    ELSE (IF a % 2 = 1 \/ b % 2 = 1 THEN 1 ELSE 0) + 2 * BitOr(a \div 2, b \div 2)

(* A 32-bit quantity is kept as two 16-bit halves, value = hi * 2^16 + lo, so   *)
(* that every value of a uint32_t, up to 2^32 - 1, has a representation.        *)
U32(n) == [hi |-> n \div Pow2(16), lo |-> n % Pow2(16)]

\* the value as a number, for values below 2^31
U32Nat(w) == w.hi * Pow2(16) + w.lo

U32Fits(w) == w.hi < Pow2(15)

\* w |= byte << k for k in {0, 8, 16, 24}: the shifted byte lies in one half
OrShl(w, byte, k) ==
    IF k < 16 THEN [w EXCEPT !.lo = BitOr(@, byte * Pow2(k))]
    ELSE [w EXCEPT !.hi = BitOr(@, byte * Pow2(k - 16))]

\* ECMAScript (len >> k) & 0xFF for k in {0, 8, 16, 24}: ToInt32 makes the
\* operand signed (hi - 2^16 when the top bit is set), >> is the arithmetic
\* shift (the floor of the division) and & 0xFF keeps the low eight bits
JsShrAndFF(w, k) ==
    LET shi == IF w.hi >= Pow2(15) THEN w.hi - Pow2(16) ELSE w.hi
    IN  CASE k = 0 -> w.lo % 256
          [] k = 8 -> (shi * 256 + (w.lo \div 256)) % 256
          [] k = 16 -> shi % 256
          [] k = 24 -> (shi \div 256) % 256

-----------------------------------------------------------------------------
(* URL normalisation *)

\* std::string::operator[]: s[size()] is the terminating NUL
CharAt(s, i) == IF i < Len(s) THEN s[i + 1] ELSE 0

npos == -1

\* s.rfind(p, 0): 0 when s begins with p, npos otherwise
Rfind0(s, p) ==
    IF Len(p) <= Len(s) /\ SubSeq(s, 1, Len(p)) = p THEN 0 ELSE npos

\* a normaliser that never resolves a path against the origin
NormalizeUrlNoOrigin(url, origin) ==
    IF Rfind0(url, S(<<"h","t","t","p","s",":","/","/">>)) # 0
       /\ Rfind0(url, S(<<"h","t","t","p",":","/","/">>)) # 0
    THEN S(<<"h","t","t","p","s",":","/","/">>) \o url
    ELSE url

\* a normaliser that resolves a path against the origin and adds no scheme
NormalizeUrlKeepsRelative(url, origin) ==
    IF CharAt(url, 0) = Ord("/") THEN origin \o url ELSE url

\* HTTPWasmClient::NormalizeUrl(url), with host_port as origin
NormalizeUrl(url, origin) ==
    LET path == IF CharAt(url, 0) = Ord("/") THEN origin \o url ELSE url
    IN  IF Rfind0(path, S(<<"h","t","t","p","s",":","/","/">>)) # 0
           /\ Rfind0(path, S(<<"h","t","t","p",":","/","/">>)) # 0
        THEN S(<<"h","t","t","p","s",":","/","/">>) \o path
        ELSE path

-----------------------------------------------------------------------------
(* Length-prefixed wire buffer *)

\* the host side: Module.HEAPU8[resultPtr + i] = (len >> 8 * i) & 0xFF
EncodeLen(len) ==
    <<JsShrAndFF(len, 0), JsShrAndFF(len, 8), JsShrAndFF(len, 16), JsShrAndFF(len, 24)>>

\* the host side: the four length bytes, then HEAPU8.set(payload, resultPtr + 4)
encode_wire(payload) == EncodeLen(U32(Len(payload))) \o payload

\* a decoder that reads the prefix most significant byte first
DecodeLenBigEndian(b) ==
    OrShl(OrShl(OrShl(OrShl(U32(0), b[4], 0), b[3], 8), b[2], 16), b[1], 24)

\* a decoder that leaves out the fourth byte
DecodeLenThreeBytes(b) ==
    OrShl(OrShl(OrShl(U32(0), b[1], 0), b[2], 8), b[3], 16)

\* the bridge side: len |= r[0]; len |= r[1] << 8; len |= r[2] << 16; len |= r[3] << 24
DecodeLen(b) ==
    OrShl(OrShl(OrShl(OrShl(U32(0), b[1], 0), b[2], 8), b[3], 16), b[4], 24)

(* Bytes of memory that may follow a wire buffer on the heap.  A read of more  *)
(* bytes than the buffer holds returns the buffer's bytes followed by whatever *)
(* lies behind it; the model keeps two samples of that memory.                 *)
AdjacentMemory == {<<170>>, <<0, 187>>}

(* string(result + 4, len): the len bytes after the prefix.  When len exceeds  *)
(* what the buffer holds the read runs past its end, which is undefined: the  *)
(* access traps (a WebAssembly out-of-bounds fault or a failed allocation) or *)
(* it returns the buffer's bytes followed by adjacent memory.                 *)
ReadPayload(buf) ==
    LET len == DecodeLen(buf)
    IN  IF U32Fits(len) /\ 4 + U32Nat(len) <= Len(buf)
        THEN {[trap |-> FALSE, oob |-> FALSE, bytes |-> SubSeq(buf, 5, 4 + U32Nat(len))]}
        ELSE {[trap |-> TRUE, oob |-> TRUE, bytes |-> <<>>]}
             \cup {[trap |-> FALSE, oob |-> TRUE, bytes |-> SubSeq(buf, 5, Len(buf)) \o g] :
                     g \in AdjacentMemory}

-----------------------------------------------------------------------------
(* Response-header block *)

\* s.find(pat, from): the first position at or after from where pat occurs
Find(s, pat, from) ==
    LET hits == {i \in from..(Len(s) - Len(pat)) : SubSeq(s, i + 1, i + Len(pat)) = pat}
    IN  IF hits = {} THEN npos ELSE CHOOSE i \in hits : \A j \in hits : i <= j

\* StringUtil::Split: the loop over the separators; empty pieces are not kept
RECURSIVE SplitFrom(_, _, _)
SplitFrom(input, split, last) ==
    IF last > Len(input) THEN <<>>
    ELSE LET f == Find(input, split, last)
             next == IF f = npos THEN Len(input) ELSE f
             substr == SubSeq(input, last + 1, next)
         IN  (IF substr # <<>> THEN <<substr>> ELSE <<>>)
             \o SplitFrom(input, split, next + Len(split))

\* StringUtil::Split(input, split): an input without pieces yields itself
Split(input, split) ==
    LET splits == SplitFrom(input, split, 0)
    IN  IF splits = <<>> THEN <<input>> ELSE splits

\* while (!value.empty() && value[0] == ' ') value = value.substr(1);
RECURSIVE TrimLeadingSpaces(_)
TrimLeadingSpaces(value) ==
    IF value # <<>> /\ value[1] = Ord(" ") THEN TrimLeadingSpaces(Tail(value)) ELSE value

LowerCase(s) == [i \in 1..Len(s) |-> IF s[i] \in 65..90 THEN s[i] + 32 ELSE s[i]]

\* HTTPHeaders::Insert: a map insert under case-insensitive keys, which keeps
\* the entry already present
Insert(headers, name, value) ==
    IF \E h \in headers : LowerCase(h[1]) = LowerCase(name) THEN headers
    ELSE headers \cup {<<name, value>>}

\* a line parse that keeps the spaces after the colon
InsertLineKeepsSpaces(headers, line) ==
    LET colon_pos == Find(line, S(<<":">>), 0)
    IN  IF colon_pos # npos
        THEN Insert(headers, SubSeq(line, 1, colon_pos),
                    SubSeq(line, colon_pos + 2, Len(line)))
        ELSE headers

\* one line of the block: split at the first colon, trim the value
InsertLine(headers, line) ==
    LET colon_pos == Find(line, S(<<":">>), 0)
    IN  IF colon_pos # npos
        THEN Insert(headers, SubSeq(line, 1, colon_pos),
                    TrimLeadingSpaces(SubSeq(line, colon_pos + 2, Len(line))))
        ELSE headers

RECURSIVE InsertLines(_, _)
InsertLines(headers, lines) ==
    IF lines = <<>> THEN headers
    ELSE InsertLines(InsertLine(headers, Head(lines)), Tail(lines))

\* a decoder that splits each line at its last colon
ParseHeadersLastColon(headers_str) ==
    LET lines == Split(headers_str, S(<<"CR", "LF">>))
        cut(line) == CHOOSE i \in 0..Len(line) :
                        /\ i > 0 => line[i] = Ord(":")
                        /\ \A j \in (i + 1)..Len(line) : line[j] # Ord(":")
        ins(hs, line) == IF cut(line) = 0 THEN hs
                         ELSE Insert(hs, SubSeq(line, 1, cut(line) - 1),
                                     TrimLeadingSpaces(SubSeq(line, cut(line) + 1, Len(line))))
        f[k \in 0..Len(lines)] == IF k = 0 THEN {} ELSE ins(f[k - 1], lines[k])
    IN  f[Len(lines)]

\* DoHeadRequest's parse of the response headers into res->headers
ParseHeaders(headers_str) ==
    InsertLines({}, Split(headers_str, S(<<"CR", "LF">>)))

\* the text of a header collection: one "Name: Value\r\n" line per pair, as
\* xhr.getAllResponseHeaders() gives it
RECURSIVE HeaderBlock(_)
HeaderBlock(H) ==
    IF H = <<>> THEN <<>>
    ELSE Head(H)[1] \o S(<<":", " ">>) \o Head(H)[2] \o S(<<"CR", "LF">>)
         \o HeaderBlock(Tail(H))

-----------------------------------------------------------------------------
(* The malloc heap *)

NULL == 0

Dispatches == 1..MaxInFlight

\* a dispatch holds at most the pointer array, two buffers per header, the
\* body copy and the wire buffer; no request of the model has more than
\* three headers
HeapSize == MaxInFlight * 9

Addr == 1..HeapSize

NoBlock == [used |-> FALSE, data |-> <<>>, owner |-> 0]

Event(ev, a) == [ev |-> ev, a |-> a]

(* A machine state st = [heap, trace]: the heap and the events of the running *)
(* dispatch so far, in program order.                                         *)

\* a scratch allocator per dispatch: the lowest address the dispatch itself
\* does not hold, whoever else holds it
MallocScratch(st, data, owner) ==
    LET mine(x) == st.heap[x].used /\ st.heap[x].owner = owner
        a == CHOOSE x \in Addr : ~mine(x) /\ \A y \in Addr : y < x => mine(y)
    IN  [heap |-> [st.heap EXCEPT ![a] = [used |-> TRUE, data |-> data, owner |-> owner]],
         trace |-> Append(st.trace, Event("malloc", a)),
         ptr |-> a]

\* malloc: the lowest free address (first fit); the block holds data
Malloc(st, data, owner) ==
    LET a == CHOOSE x \in Addr : ~st.heap[x].used /\ \A y \in Addr : y < x => st.heap[y].used
    IN  [heap |-> [st.heap EXCEPT ![a] = [used |-> TRUE, data |-> data, owner |-> owner]],
         trace |-> Append(st.trace, Event("malloc", a)),
         ptr |-> a]

\* free(p): releases the block; a free of a block that is not allocated is
\* recorded as the event "badfree"
Free(st, p) ==
    IF st.heap[p].used
    THEN [heap |-> [st.heap EXCEPT ![p] = NoBlock],
          trace |-> Append(st.trace, Event("free", p))]
    ELSE [heap |-> st.heap, trace |-> Append(st.trace, Event("badfree", p))]

\* a C string buffer: malloc(size + 1), memset 0, memcpy
CBuffer(str) == Append(str, 0)

\* UTF8ToString(ptr): the bytes up to the first NUL
UTF8ToString(h, ptr) ==
    LET data == h[ptr].data
        n == CHOOSE i \in 0..Len(data) :
                /\ i < Len(data) => data[i + 1] = 0
                /\ \A j \in 1..i : data[j] # 0
    IN  SubSeq(data, 1, n)

-----------------------------------------------------------------------------
(* Header marshalling *)

\* the second loop of PrepareHeaders: two buffers per header, stored at z[i], z[i+1]
RECURSIVE FillHeaders(_, _, _, _, _)
FillHeaders(st, z, headers, i, owner) ==
    IF headers = <<>> THEN st
    ELSE LET m1 == Malloc(st, CBuffer(Head(headers)[1]), owner)
             m2 == Malloc(m1, CBuffer(Head(headers)[2]), owner)
             h2 == [m2.heap EXCEPT ![z].data[i + 1] = m1.ptr, ![z].data[i + 2] = m2.ptr]
         IN  FillHeaders([heap |-> h2, trace |-> m2.trace], z, Tail(headers), i + 2, owner)

\* PrepareHeaders(headers, count): the flat pointer array and the pair count
PrepareHeaders(st, headers, owner) ==
    LET count == Len(headers)
        mz == Malloc(st, [k \in 1..(count * 2) |-> NULL], owner)
        filled == FillHeaders(mz, mz.ptr, headers, 0, owner)
    IN  [heap |-> filled.heap, trace |-> filled.trace, z |-> mz.ptr, count |-> count]

\* the loop of FreeHeaders: free(z[i]) for i < count * 2
RECURSIVE FreeEntries(_, _, _, _)
FreeEntries(st, z, i, n) ==
    IF i >= n THEN st
    ELSE FreeEntries(Free(st, st.heap[z].data[i + 1]), z, i + 1, n)

\* a release that forgets the value buffers
FreeHeadersNamesOnly(st, z, count) ==
    LET f[i \in 0..count] ==
            IF i = 0 THEN st ELSE Free(f[i - 1], st.heap[z].data[2 * i - 1])
    IN  Free(f[count], z)

\* FreeHeaders(z, count)
FreeHeaders(st, z, count) ==
    Free(FreeEntries(st, z, 0, count * 2), z)

-----------------------------------------------------------------------------
(* The host primitives *)

HostOverride == S(<<"X","-","H","o","s","t","-","O","v","e","r","r","i","d","e">>)

XUserAgent == S(<<"X","-","U","s","e","r","-","A","g","e","n","t">>)

HostName == S(<<"H","o","s","t">>)

UserAgent == S(<<"U","s","e","r","-","A","g","e","n","t">>)

\* a rename that covers Host only
RenameHostOnly(headerName) ==
    IF headerName = HostName THEN HostOverride ELSE headerName

\* if (headerName === "Host") ...; if (headerName === "User-Agent") ...
Rename(headerName) ==
    LET n1 == IF headerName = HostName THEN HostOverride ELSE headerName
    IN  IF n1 = UserAgent THEN XUserAgent ELSE n1

\* the header loop of the sync primitives: for (i = 0; i < headerCount * 2; i += 2)
\* read the two pointers from the array, rename, xhr.setRequestHeader
RECURSIVE SetHeaders(_, _, _, _)
SetHeaders(h, headerArray, headerCount, i) ==
    IF i >= headerCount * 2 THEN <<>>
    ELSE LET ptr1 == h[headerArray].data[i + 1]
             ptr2 == h[headerArray].data[i + 2]
         IN  <<<<Rename(UTF8ToString(h, ptr1)), UTF8ToString(h, ptr2)>>>>
             \o SetHeaders(h, headerArray, headerCount, i + 2)

\* the body handed to xhr.send: a copy of bodyLen bytes, or null
SendBody(h, bodyPtr, bodyLen) ==
    IF bodyPtr # NULL /\ bodyLen > 0
    THEN [null |-> FALSE, bytes |-> SubSeq(h[bodyPtr].data, 1, bodyLen)]
    ELSE [null |-> TRUE, bytes |-> <<>>]

\* em_sync_request up to xhr.send: the request the host sends
em_sync_request(h, url, method, header_count, header_array, body, body_len) ==
    [primitive |-> "em_sync_request", method |-> method, url |-> url,
     headers |-> SetHeaders(h, header_array, header_count, 0),
     body |-> SendBody(h, body, body_len)]

\* em_sync_head_request up to xhr.send
em_sync_head_request(h, url, header_count, header_array) ==
    [primitive |-> "em_sync_head_request", method |-> "HEAD", url |-> url,
     headers |-> SetHeaders(h, header_array, header_count, 0),
     body |-> [null |-> TRUE, bytes |-> <<>>]]

\* em_async_request (http_async.js) up to fetch: the same marshalling and the
\* same rename as the sync primitive
em_async_request(h, url, method, header_count, header_array, body, body_len) ==
    [primitive |-> "em_async_request", method |-> method, url |-> url,
     headers |-> SetHeaders(h, header_array, header_count, 0),
     body |-> SendBody(h, body, body_len)]

\* em_async_head_request (http_async.js) up to fetch
em_async_head_request(h, url, header_count, header_array) ==
    [primitive |-> "em_async_head_request", method |-> "HEAD", url |-> url,
     headers |-> SetHeaders(h, header_array, header_count, 0),
     body |-> [null |-> TRUE, bytes |-> <<>>]]

(* What the network does with a request: the send throws, or it completes     *)
(* with a status (0 for a network error) and a response (the body, or the     *)
(* header block of a HEAD).                                                   *)
Outcome(throws, status, response) ==
    [throws |-> throws, status |-> status, response |-> response]

\* the sync primitives from xhr.send on: 0 for an exception, for status 0 and
\* for status >= 400; otherwise the malloc'ed wire buffer
HostResult(st, outcome, owner) ==
    IF outcome.throws THEN [heap |-> st.heap, trace |-> st.trace, ptr |-> NULL]
    ELSE IF outcome.status = 0 \/ outcome.status >= 400
         THEN [heap |-> st.heap, trace |-> st.trace, ptr |-> NULL]
         ELSE Malloc(st, encode_wire(outcome.response), owner)

\* the async primitives (http_async.js) once the fetch has settled: null for a
\* failure, otherwise the wire buffer
AsyncHostResult(st, outcome, owner) ==
    IF outcome.throws \/ outcome.status = 0 \/ outcome.status >= 400
    THEN [heap |-> st.heap, trace |-> st.trace, ptr |-> NULL]
    ELSE Malloc(st, encode_wire(outcome.response), owner)

-----------------------------------------------------------------------------
(* The client *)

NotFound_404 == 404

OK_200 == 200

\* a default-constructed HTTPResponse: empty reason, body and headers
HTTPResponse(status) ==
    [status |-> status, reason |-> "", body |-> <<>>, headers |-> {}]

NoHostRequest ==
    [primitive |-> "none", method |-> "none", url |-> <<>>, headers |-> <<>>,
     body |-> [null |-> TRUE, bytes |-> <<>>]]

\* a dispatch that is not running
IdleDispatch ==
    [pc |-> "idle", verb |-> "none", method |-> "none", url |-> <<>>,
     headers |-> <<>>, content_handler |-> FALSE,
     path |-> <<>>, header_array |-> NULL, header_count |-> 0, payload |-> NULL,
     hostreq |-> NoHostRequest, result |-> NULL, res |-> HTTPResponse(0),
     handler_calls |-> <<>>, oob |-> FALSE, wire |-> <<>>, trace |-> <<>>]

\* em_has_xhr() (http_async.js): 1 when the host defines XMLHttpRequest
em_has_xhr == IF host_has_xhr THEN 1 ELSE 0

\* a constructor that probes once per branch it prints
ConstructorProbesTwice(proto_host_port) ==
    /\ ~constructed
    /\ constructed' = TRUE
    /\ host_port' = proto_host_port
    /\ use_sync_xhr' = (em_has_xhr = 1)
    /\ probe_calls' = probe_calls + 2
    /\ UNCHANGED <<heap, disp, buffer_out, calls, host_has_xhr, fnVars, arrowVars>>

\* HTTPWasmClient::HTTPWasmClient(http_params, proto_host_port)
HTTPWasmClient(proto_host_port) ==
    /\ ~constructed
    /\ constructed' = TRUE
    /\ host_port' = proto_host_port
    /\ use_sync_xhr' = (em_has_xhr = 1)
    /\ probe_calls' = probe_calls + 1
    /\ UNCHANGED <<heap, disp, buffer_out, calls, host_has_xhr, fnVars, arrowVars>>

(* A call of a verb may start when the client exists, the module has not      *)
(* trapped, no response waits to be taken by its caller and, in synchronous   *)
(* mode, no other dispatch is in flight (the host call blocks the thread).    *)
(* It runs in the lowest idle slot.                                           *)
MayStart(d) ==
    /\ constructed
    /\ calls < MaxCalls
    /\ disp[d].pc = "idle"
    /\ \A e \in Dispatches : e < d => disp[e].pc # "idle"
    /\ \A e \in Dispatches : disp[e].pc \notin {"done", "trapped"}
    /\ use_sync_xhr => \A e \in Dispatches : disp[e].pc = "idle"

\* the body copy: if (body_data && body_len > 0) { malloc; memcpy }
CopyBody(st, body_null, body_data, body_len, owner) ==
    IF ~body_null /\ body_len > 0
    THEN Malloc(st, SubSeq(body_data, 1, body_len), owner)
    ELSE [heap |-> st.heap, trace |-> st.trace, ptr |-> NULL]

\* DoRequest up to the host call
DoRequestBegin(d, verb, method, url, headers, body_null, body_data, body_len, content_handler) ==
    LET path == NormalizeUrl(url, host_port)
        ph == PrepareHeaders([heap |-> heap, trace |-> <<>>], headers, d)
        pl == CopyBody(ph, body_null, body_data, body_len, d)
        hostreq == IF use_sync_xhr
                   THEN em_sync_request(pl.heap, path, method, ph.count, ph.z, pl.ptr, body_len)
                   ELSE em_async_request(pl.heap, path, method, ph.count, ph.z, pl.ptr, body_len)
    IN  /\ MayStart(d)
        /\ calls' = calls + 1
        /\ heap' = pl.heap
        /\ disp' = [disp EXCEPT ![d] =
                      [IdleDispatch EXCEPT
                         !.pc = "host", !.verb = verb, !.method = method, !.url = url,
                         !.headers = headers, !.content_handler = content_handler,
                         !.path = path, !.header_array = ph.z, !.header_count = ph.count,
                         !.payload = pl.ptr, !.hostreq = hostreq,
                         !.trace = Append(pl.trace, Event("host_call", 0))]]
        /\ UNCHANGED <<host_port, use_sync_xhr, constructed, probe_calls, buffer_out,
                       host_has_xhr, fnVars, arrowVars>>

\* a DoHeadRequest that sends HEAD through the general request primitives
DoHeadRequestBeginGeneral(d, url, headers) ==
    LET path == NormalizeUrl(url, host_port)
        ph == PrepareHeaders([heap |-> heap, trace |-> <<>>], headers, d)
        hostreq == IF use_sync_xhr
                   THEN em_sync_request(ph.heap, path, "HEAD", ph.count, ph.z, NULL, 0)
                   ELSE em_async_request(ph.heap, path, "HEAD", ph.count, ph.z, NULL, 0)
    IN  /\ MayStart(d)
        /\ calls' = calls + 1
        /\ heap' = ph.heap
        /\ disp' = [disp EXCEPT ![d] =
                      [IdleDispatch EXCEPT
                         !.pc = "host", !.verb = "Head", !.method = "HEAD", !.url = url,
                         !.headers = headers,
                         !.path = path, !.header_array = ph.z, !.header_count = ph.count,
                         !.hostreq = hostreq,
                         !.trace = Append(ph.trace, Event("host_call", 0))]]
        /\ UNCHANGED <<host_port, use_sync_xhr, constructed, probe_calls, buffer_out,
                       host_has_xhr, fnVars, arrowVars>>

\* DoHeadRequest up to the host call
DoHeadRequestBegin(d, url, headers) ==
    LET path == NormalizeUrl(url, host_port)
        ph == PrepareHeaders([heap |-> heap, trace |-> <<>>], headers, d)
        hostreq == IF use_sync_xhr
                   THEN em_sync_head_request(ph.heap, path, ph.count, ph.z)
                   ELSE em_async_head_request(ph.heap, path, ph.count, ph.z)
    IN  /\ MayStart(d)
        /\ calls' = calls + 1
        /\ heap' = ph.heap
        /\ disp' = [disp EXCEPT ![d] =
                      [IdleDispatch EXCEPT
                         !.pc = "host", !.verb = "Head", !.method = "HEAD", !.url = url,
                         !.headers = headers,
                         !.path = path, !.header_array = ph.z, !.header_count = ph.count,
                         !.hostreq = hostreq,
                         !.trace = Append(ph.trace, Event("host_call", 0))]]
        /\ UNCHANGED <<host_port, use_sync_xhr, constructed, probe_calls, buffer_out,
                       host_has_xhr, fnVars, arrowVars>>

\* a failure response without its reason
RequestFailedNoReason == HTTPResponse(NotFound_404)

\* res = make_uniq<HTTPResponse>(NotFound_404); res->reason = "Request failed ..."
RequestFailed ==
    [HTTPResponse(NotFound_404) EXCEPT
       !.reason = "Request failed - check console for errors"]

\* a failure response of Head without its reason
HeadFailedNoReason == HTTPResponse(NotFound_404)

\* res = make_uniq<HTTPResponse>(NotFound_404); res->reason = "HEAD request failed"
HeadFailed ==
    [HTTPResponse(NotFound_404) EXCEPT !.reason = "HEAD request failed"]

\* a DoRequest that releases the wire buffer before it has copied the body
DoRequestTailFreesFirst(st, rec, result, o) ==
    LET back == [heap |-> st.heap, trace |-> Append(st.trace, Event("host_return", result))]
        f1 == FreeHeaders(back, rec.header_array, rec.header_count)
        f2 == IF rec.payload # NULL THEN Free(f1, rec.payload) ELSE f1
    IN  IF result = NULL
        THEN [heap |-> f2.heap,
              rec |-> [rec EXCEPT !.pc = "done",
                         !.res = RequestFailed,
                         !.trace = Append(f2.trace, Event("return", 0))]]
        ELSE IF o.trap
        THEN [heap |-> f2.heap,
              rec |-> [rec EXCEPT !.pc = "trapped", !.result = result, !.oob = TRUE,
                         !.trace = Append(f2.trace, Event("trap", result))]]
        ELSE LET freed == Free(f2, result)
                 copied == Append(freed.trace, Event("copy_body", result))
                 called == IF rec.content_handler
                           THEN Append(copied, Event("handler", result))
                           ELSE copied
                 f3 == [heap |-> freed.heap, trace |-> called]
             IN  [heap |-> f3.heap,
                  rec |-> [rec EXCEPT !.pc = "done", !.result = result, !.oob = o.oob,
                             !.res = [HTTPResponse(OK_200) EXCEPT !.body = o.bytes],
                             !.handler_calls = IF rec.content_handler
                                               THEN <<o.bytes>> ELSE <<>>,
                             !.trace = Append(f3.trace, Event("return", 0))]]

(* DoRequest from the return of the host call on: st holds the heap after the *)
(* host call, result is the pointer it returned and o the outcome of reading  *)
(* the payload behind it.                                                     *)
DoRequestTail(st, rec, result, o) ==
    LET back == [heap |-> st.heap, trace |-> Append(st.trace, Event("host_return", result))]
        f1 == FreeHeaders(back, rec.header_array, rec.header_count)
        f2 == IF rec.payload # NULL THEN Free(f1, rec.payload) ELSE f1
    IN  IF result = NULL
        THEN [heap |-> f2.heap,
              rec |-> [rec EXCEPT !.pc = "done",
                         !.res = RequestFailed,
                         !.trace = Append(f2.trace, Event("return", 0))]]
        ELSE IF o.trap
        THEN [heap |-> f2.heap,
              rec |-> [rec EXCEPT !.pc = "trapped", !.result = result, !.oob = TRUE,
                         !.trace = Append(f2.trace, Event("trap", result))]]
        ELSE LET copied == Append(f2.trace, Event("copy_body", result))
                 called == IF rec.content_handler
                           THEN Append(copied, Event("handler", result))
                           ELSE copied
                 f3 == Free([heap |-> f2.heap, trace |-> called], result)
             IN  [heap |-> f3.heap,
                  rec |-> [rec EXCEPT !.pc = "done", !.result = result, !.oob = o.oob,
                             !.res = [HTTPResponse(OK_200) EXCEPT !.body = o.bytes],
                             !.handler_calls = IF rec.content_handler
                                               THEN <<o.bytes>> ELSE <<>>,
                             !.trace = Append(f3.trace, Event("return", 0))]]

\* DoHeadRequest from the return of the host call on
DoHeadRequestTail(st, rec, result, o) ==
    LET back == [heap |-> st.heap, trace |-> Append(st.trace, Event("host_return", result))]
        f1 == FreeHeaders(back, rec.header_array, rec.header_count)
    IN  IF result = NULL
        THEN [heap |-> f1.heap,
              rec |-> [rec EXCEPT !.pc = "done",
                         !.res = HeadFailed,
                         !.trace = Append(f1.trace, Event("return", 0))]]
        ELSE IF o.trap
        THEN [heap |-> f1.heap,
              rec |-> [rec EXCEPT !.pc = "trapped", !.result = result, !.oob = TRUE,
                         !.trace = Append(f1.trace, Event("trap", result))]]
        ELSE LET f3 == Free([heap |-> f1.heap,
                             trace |-> Append(f1.trace, Event("parse_headers", result))],
                            result)
             IN  [heap |-> f3.heap,
                  rec |-> [rec EXCEPT !.pc = "done", !.result = result, !.oob = o.oob,
                             !.res = [HTTPResponse(OK_200) EXCEPT
                                        !.headers = ParseHeaders(o.bytes)],
                             !.trace = Append(f3.trace, Event("return", 0))]]

\* a Post that replaces the output buffer by the body
PostTailOverwrites(out, verb, res) ==
    IF verb = "Post" /\ res.status = OK_200 THEN res.body ELSE out

\* the end of Post: if (result && result->status == OK_200) info.buffer_out += result->body;
\* the other verbs return DoRequest's response as it is
PostTail(out, verb, res) ==
    IF verb = "Post" /\ res.status = OK_200 THEN out \o res.body ELSE out

\* the outcomes of reading the payload behind a result pointer
PayloadOutcomes(h, result) ==
    IF result = NULL THEN {[trap |-> FALSE, oob |-> FALSE, bytes |-> <<>>]}
    ELSE ReadPayload(h[result].data)

-----------------------------------------------------------------------------
(* The requests and network outcomes the model draws from *)

Origins == {S(<<"h","t","t","p","s",":","/","/","h">>)}

UrlFoo == S(<<"/","f","o","o">>)

UrlAbs == S(<<"h","t","t","p",":","/","/","x","/","y">>)

NoHeaders == <<>>

ReservedHeaders ==
    << <<HostName, S(<<"e","x","a","m","p","l","e",".","c","o","m">>)>>,
       <<UserAgent, S(<<"x">>)>> >>

RangeHeader == << <<S(<<"R","a","n","g","e">>), S(<<"0","-","1">>)>> >>

MixedHeaders ==
    << <<S(<<"h","o","s","t">>), S(<<"h">>)>>,
       <<HostName \o S(<<"s">>), S(<<"a"," ","b">>)>>,
       <<UserAgent, S(<<>>)>> >>

BodyAB == S(<<"a","b">>)

GetInfos ==
    {[url |-> UrlFoo, headers |-> ReservedHeaders, content_handler |-> TRUE],
     [url |-> UrlAbs, headers |-> NoHeaders, content_handler |-> FALSE],
     [url |-> UrlFoo, headers |-> RangeHeader, content_handler |-> TRUE]}

HeadInfos ==
    {[url |-> UrlFoo, headers |-> ReservedHeaders],
     [url |-> UrlAbs, headers |-> NoHeaders]}

PostInfos ==
    {[url |-> UrlFoo, headers |-> ReservedHeaders,
      buffer_in_null |-> FALSE, buffer_in |-> BodyAB, buffer_in_len |-> 2],
     [url |-> UrlAbs, headers |-> NoHeaders,
      buffer_in_null |-> TRUE, buffer_in |-> <<>>, buffer_in_len |-> 0]}

PutInfos ==
    {[url |-> UrlFoo, headers |-> MixedHeaders,
      buffer_in_null |-> FALSE, buffer_in |-> BodyAB, buffer_in_len |-> 2],
     [url |-> UrlAbs, headers |-> NoHeaders,
      buffer_in_null |-> FALSE, buffer_in |-> <<>>, buffer_in_len |-> 0]}

DeleteInfos ==
    {[url |-> UrlFoo, headers |-> ReservedHeaders],
     [url |-> UrlAbs, headers |-> RangeHeader]}

Hello == S(<<"h","e","l","l","o">>)

BodyOutcomes ==
    {Outcome(TRUE, 0, <<>>),
     Outcome(FALSE, 0, <<>>),
     Outcome(FALSE, 200, Hello),
     Outcome(FALSE, 201, S(<<"o","k">>)),
     Outcome(FALSE, 304, <<>>),
     Outcome(FALSE, 404, S(<<"n","o">>)),
     Outcome(FALSE, 500, <<>>)}

BlockOutcomes ==
    {Outcome(TRUE, 0, <<>>),
     Outcome(FALSE, 0, <<>>),
     Outcome(FALSE, 200, S(<<"a",":"," "," ","1","CR","LF","b","b",":","2",":","3","CR","LF">>)),
     Outcome(FALSE, 200, <<>>),
     Outcome(FALSE, 301, S(<<"x","CR","LF","CR","LF","A",":","1","CR","LF","a",":","2">>)),
     Outcome(FALSE, 404, S(<<"a",":","1","CR","LF">>))}

-----------------------------------------------------------------------------
(* The Arrow IPC ingestion helper (src/src/arrow/arrow_ipc_insert.cpp) *)

DuckDBSuccess == 0

DuckDBError == 1

NANOARROW_OK == 0

\* what the nanoarrow initialisers may return: success, ENOMEM, EINVAL
ErrorCodes == {NANOARROW_OK, 12, 22}

\* what a call of the DuckDB C API may return
DuckDBStates == {DuckDBSuccess, DuckDBError}

view_name == "__ducklings_arrow_tmp"

(* An Arrow object (the ArrowBuffer buf, the ArrowIpcInputStream input, the   *)
(* ArrowArrayStream stream) is "uninit" (declared only), "owner" (it holds    *)
(* the IPC bytes and its release callback is set), "empty" (zeroed or moved   *)
(* from: no release callback) or "released".                                  *)
(* A machine state m = [buf, input, stream, views, tables, trace] holds the   *)
(* three objects, the views and tables of the connection's catalog and the    *)
(* events of the running call, in program order.                              *)

ArrowEvent(m, ev, a) == [m EXCEPT !.trace = Append(m.trace, Event(ev, a))]

\* ArrowBufferInit(&buf); buf.data = ...; buf.allocator = ArrowBufferDeallocator(noop_deallocator, nullptr)
ArrowBufferInit(m) == ArrowEvent([m EXCEPT !.buf = "owner"], "create", "buf")

\* ArrowBufferReset(&buf): the allocator frees the data (noop_deallocator: the
\* caller keeps the bytes) and the buffer becomes empty
ArrowBufferReset(m) ==
    IF m.buf = "owner"
    THEN ArrowEvent([m EXCEPT !.buf = "released"], "release", "buf")
    ELSE ArrowEvent(m, "badrelease", "buf")

\* ArrowIpcInputStreamInitBuffer(&input, &buf): on success the stream takes
\* the buffer (ArrowBufferMove); on failure both are as before
ArrowIpcInputStreamInitBuffer(m, rc) ==
    IF rc = NANOARROW_OK
    THEN ArrowEvent([m EXCEPT !.buf = "empty", !.input = "owner"], "create", "input")
    ELSE m

\* std::memset(&stream, 0, sizeof(stream))
ZeroStream(m) == [m EXCEPT !.stream = "empty"]

\* ArrowIpcArrayStreamReaderInit(&stream, &input, nullptr): on success the
\* reader takes the input stream (ArrowIpcInputStreamMove: input.release
\* becomes null); on failure both are as before
ArrowIpcArrayStreamReaderInit(m, rc) ==
    IF rc = NANOARROW_OK
    THEN ArrowEvent([m EXCEPT !.input = "empty", !.stream = "owner"], "create", "stream")
    ELSE m

\* if (input.release) input.release(&input): the callback is set for an owner
ReleaseInput(m) ==
    IF m.input = "owner"
    THEN ArrowEvent([m EXCEPT !.input = "released"], "release", "input")
    ELSE m

\* if (stream.release) stream.release(&stream)
ReleaseStream(m) ==
    IF m.stream = "owner"
    THEN ArrowEvent([m EXCEPT !.stream = "released"], "release", "stream")
    ELSE m

\* duckdb_arrow_scan(connection, view_name, &stream): on success the view
\* view_name over the stream exists (created or replaced); the stream stays
\* the caller's
duckdb_arrow_scan(m, name, state) ==
    LET scanned == ArrowEvent(m, "scan", name)
    IN  IF state = DuckDBSuccess
        THEN ArrowEvent([scanned EXCEPT !.views = @ \cup {name}], "create", name)
        ELSE scanned

\* the statement CREATE TABLE IF NOT EXISTS "table_name" AS SELECT * FROM "view_name"
create_sql(table_name, view) ==
    [statement |-> "CREATE TABLE IF NOT EXISTS AS SELECT * FROM",
     table |-> table_name, view |-> view]

\* the statement DROP VIEW IF EXISTS "__ducklings_arrow_tmp"
drop_sql == [statement |-> "DROP VIEW IF EXISTS", table |-> <<>>, view |-> view_name]

\* duckdb_query(connection, sql, &result); duckdb_destroy_result(&result):
\* the statement takes effect when the query succeeds; the result, which
\* holds the state of the query, is destroyed
duckdb_query(m, sql, state) ==
    LET run == ArrowEvent(m, "query", sql)
        done == IF state # DuckDBSuccess THEN run
                ELSE IF sql.statement = "DROP VIEW IF EXISTS"
                THEN [run EXCEPT !.views = @ \ {sql.view}]
                ELSE [run EXCEPT !.tables = @ \cup {sql.table}]
    IN  ArrowEvent(done, "destroy_result", state)

\* a validation that lets a zero length pass
InvalidArgumentsNoLength(connection, table_name, ipc_buffer, buffer_length) ==
    connection = NULL \/ table_name.null \/ ipc_buffer = NULL

\* !connection || !table_name || !ipc_buffer || buffer_length == 0
InvalidArguments(connection, table_name, ipc_buffer, buffer_length) ==
    connection = NULL \/ table_name.null \/ ipc_buffer = NULL \/ buffer_length = 0

\* the end of a call: the status it returns
ArrowReturn(m, state) == [m |-> ArrowEvent(m, "return", state), ret |-> state]

(* duckdb_wasm_insert_arrow_ipc(connection, table_name, ipc_buffer,           *)
(* buffer_length), run on the catalog cat; lib holds what the library calls   *)
(* return: init_rc, reader_rc (nanoarrow), scan, create, drop (DuckDB).       *)
duckdb_wasm_insert_arrow_ipc(cat, connection, table_name, ipc_buffer, buffer_length, lib) ==
    LET m0 == [buf |-> "uninit", input |-> "uninit", stream |-> "uninit",
               views |-> cat.views, tables |-> cat.tables, trace |-> <<>>]
        m1 == ArrowIpcInputStreamInitBuffer(ArrowBufferInit(m0), lib.init_rc)
        m2 == ArrowIpcArrayStreamReaderInit(ZeroStream(m1), lib.reader_rc)
        m3 == duckdb_arrow_scan(m2, view_name, lib.scan)
        m4 == duckdb_query(m3, create_sql(table_name.str, view_name), lib.create)
        m5 == duckdb_query(m4, drop_sql, lib.drop)
    IN  IF InvalidArguments(connection, table_name, ipc_buffer, buffer_length)
        THEN ArrowReturn(m0, DuckDBError)
        ELSE IF lib.init_rc # NANOARROW_OK
        THEN ArrowReturn(ArrowBufferReset(m1), DuckDBError)
        ELSE IF lib.reader_rc # NANOARROW_OK
        THEN ArrowReturn(ReleaseInput(m2), DuckDBError)
        ELSE IF lib.scan # DuckDBSuccess
        THEN ArrowReturn(ReleaseStream(m3), DuckDBError)
        ELSE ArrowReturn(ReleaseStream(m5), lib.create)

\* the helper before its first call, on a connection with an empty catalog
ArrowIdle ==
    [calls |-> 0, views |-> {}, tables |-> {},
     connection |-> NULL, table_name |-> [null |-> TRUE, str |-> <<>>],
     ipc_buffer |-> NULL, buffer_length |-> 0,
     buf |-> "uninit", input |-> "uninit", stream |-> "uninit",
     trace |-> <<>>, ret |-> DuckDBSuccess]

-----------------------------------------------------------------------------
(* The operations *)

Get(d, info) ==
    DoRequestBegin(d, "Get", "GET", info.url, info.headers, TRUE, <<>>, 0,
                   info.content_handler)

Head_(d, info) ==
    DoHeadRequestBegin(d, info.url, info.headers)

Post(d, info) ==
    DoRequestBegin(d, "Post", "POST", info.url, info.headers, info.buffer_in_null,
                   info.buffer_in, info.buffer_in_len, FALSE)

Put(d, info) ==
    DoRequestBegin(d, "Put", "PUT", info.url, info.headers, info.buffer_in_null,
                   info.buffer_in, info.buffer_in_len, FALSE)

Delete(d, info) ==
    DoRequestBegin(d, "Delete", "DELETE", info.url, info.headers, TRUE, <<>>, 0, FALSE)

\* a host call may return when it is pending and no response waits to be taken
MayReturn(d) ==
    /\ disp[d].pc = "host"
    /\ \A e \in Dispatches : disp[e].pc \notin {"done", "trapped"}

\* the rest of a dispatch once the host call has returned hr = [heap, trace, ptr]
Finish(d, hr) ==
    \E o \in PayloadOutcomes(hr.heap, hr.ptr) :
        LET t == IF disp[d].verb = "Head"
                 THEN DoHeadRequestTail(hr, disp[d], hr.ptr, o)
                 ELSE DoRequestTail(hr, disp[d], hr.ptr, o)
            wire == IF hr.ptr = NULL THEN <<>> ELSE hr.heap[hr.ptr].data
        IN  /\ heap' = t.heap
            /\ disp' = [disp EXCEPT ![d] = [t.rec EXCEPT !.wire = wire]]
            /\ buffer_out' = PostTail(buffer_out, disp[d].verb, t.rec.res)
            /\ UNCHANGED <<host_port, use_sync_xhr, constructed, probe_calls, calls,
                           host_has_xhr, fnVars, arrowVars>>

\* the host call of a Get, Post, Put or Delete returns and the dispatch runs to its end
RequestReturns(d, outcome) ==
    /\ MayReturn(d)
    /\ disp[d].verb # "Head"
    /\ Finish(d, IF use_sync_xhr
                 THEN HostResult([heap |-> heap, trace |-> disp[d].trace], outcome, d)
                 ELSE AsyncHostResult([heap |-> heap, trace |-> disp[d].trace], outcome, d))

\* the host call of a Head returns and the dispatch runs to its end
HeadReturns(d, outcome) ==
    /\ MayReturn(d)
    /\ disp[d].verb = "Head"
    /\ Finish(d, IF use_sync_xhr
                 THEN HostResult([heap |-> heap, trace |-> disp[d].trace], outcome, d)
                 ELSE AsyncHostResult([heap |-> heap, trace |-> disp[d].trace], outcome, d))

\* a caller that goes on before the host call has returned
TakeEarly(d) ==
    /\ disp[d].pc \in {"host", "done"}
    /\ disp' = [disp EXCEPT ![d] = IdleDispatch]
    /\ UNCHANGED <<host_port, use_sync_xhr, constructed, probe_calls, heap, buffer_out,
                   calls, host_has_xhr, fnVars, arrowVars>>

\* the caller receives the response
Take(d) ==
    /\ disp[d].pc = "done"
    /\ disp' = [disp EXCEPT ![d] = IdleDispatch]
    /\ UNCHANGED <<host_port, use_sync_xhr, constructed, probe_calls, heap, buffer_out,
                   calls, host_has_xhr, fnVars, arrowVars>>

\* what the caller's output buffer holds before the first call
InitialOutputs == {<<>>, <<7>>}

NotApplied == [applied |-> FALSE, mid |-> <<>>, value |-> <<>>]

ClientInit ==
    /\ host_port = <<>>
    /\ use_sync_xhr = FALSE
    /\ constructed = FALSE
    /\ probe_calls = 0
    /\ heap = [a \in Addr |-> NoBlock]
    /\ disp = [d \in Dispatches |-> IdleDispatch]
    /\ buffer_out \in InitialOutputs
    /\ calls = 0

Init ==
    /\ ClientInit
    /\ host_has_xhr \in BOOLEAN
    /\ arrow = ArrowIdle
    /\ fn_op = "none"
    /\ fn_arg = <<>>
    /\ fn_ret = NotApplied

Next ==
    \/ \E o \in Origins : HTTPWasmClient(o)
    \/ \E d \in Dispatches, info \in GetInfos : Get(d, info)
    \/ \E d \in Dispatches, info \in HeadInfos : Head_(d, info)
    \/ \E d \in Dispatches, info \in PostInfos : Post(d, info)
    \/ \E d \in Dispatches, info \in PutInfos : Put(d, info)
    \/ \E d \in Dispatches, info \in DeleteInfos : Delete(d, info)
    \/ \E d \in Dispatches, outcome \in BodyOutcomes : RequestReturns(d, outcome)
    \/ \E d \in Dispatches, outcome \in BlockOutcomes : HeadReturns(d, outcome)
    \/ \E d \in Dispatches : Take(d)

Spec == Init /\ [][Next]_vars

\* the step in which the host call of dispatch d returns and d runs to its end
\* (RequestReturns or HeadReturns: no other action leaves the pending state)
Resolves(d) == disp[d].pc = "host" /\ disp'[d].pc # "host"

\* some caller receives its response
CallerStep == \E d \in Dispatches : Take(d)

(* Weak fairness of the host call's return, with its enabling condition       *)
(* written out: a pending host call can always return, so the step is enabled *)
(* exactly when MayReturn(d) holds.                                           *)
HostResolves(d) ==
    \/ []<>(~MayReturn(d))
    \/ []<><<Resolves(d)>>_vars

(* The client with a host that resolves every operation (xhr.send returns;    *)
(* the suspended call is resumed) and a caller that goes on once its call has *)
(* returned.                                                                  *)
SpecLive ==
    /\ Init
    /\ [][Next]_vars
    /\ \A d \in Dispatches : HostResolves(d)
    /\ WF_vars(CallerStep)

-----------------------------------------------------------------------------
(* A fake host behind the async primitives, which are linked in from a        *)
(* library (--js-library) and so can be replaced: the host call returns a     *)
(* buffer with bytes of the fake's choice.  The sync primitives are the code  *)
(* above in either case.                                                      *)

TestWires ==
    {<<0, 0, 0, 5>> \o Hello,
     <<5, 0, 0, 0>> \o Hello,
     <<0, 0, 0, 0>>,
     <<3, 0, 0, 0>> \o S(<<"a",":","1">>)}

\* the fake host returns the wire buffer wire
FakeHostResult(st, wire, owner) == Malloc(st, wire, owner)

RequestReturnsWire(d, wire) ==
    /\ MayReturn(d)
    /\ ~use_sync_xhr
    /\ disp[d].verb # "Head"
    /\ Finish(d, FakeHostResult([heap |-> heap, trace |-> disp[d].trace], wire, d))

HeadReturnsWire(d, wire) ==
    /\ MayReturn(d)
    /\ ~use_sync_xhr
    /\ disp[d].verb = "Head"
    /\ Finish(d, FakeHostResult([heap |-> heap, trace |-> disp[d].trace], wire, d))

NextTest ==
    \/ Next
    \/ \E d \in Dispatches, wire \in TestWires : RequestReturnsWire(d, wire)
    \/ \E d \in Dispatches, wire \in TestWires : HeadReturnsWire(d, wire)

SpecTest == Init /\ [][NextTest]_vars

-----------------------------------------------------------------------------
(* The pure functions, each applied once to an input drawn at the start *)

UrlInputs ==
    {<<>>, S(<<"/">>), UrlFoo, S(<<"h","/","f","o","o">>), UrlAbs,
     S(<<"h","t","t","p","s",":","/","/","x","/","y">>),
     S(<<"h","t","t","p",":","/","x">>), S(<<"h","t","t","p","s",":","/","/">>),
     S(<<"f","o","o">>), S(<<"H","T","T","P",":","/","/","x">>)}

OriginInputs ==
    {S(<<"h","t","t","p","s",":","/","/","h">>), S(<<"h","t","t","p",":","/","/","h">>),
     S(<<"h">>), <<>>, S(<<"/","h">>)}

PayloadBytes == {0, 5, 255}

Payloads == UNION {[1..n -> PayloadBytes] : n \in 0..MaxPayloadLen}

\* lengths up to 2^32 - 1, by their halves
LenHalves == {0, 1, 255, 256, 32767, 32768, 65535}

LenInputs == {[hi |-> h, lo |-> l] : h \in LenHalves, l \in LenHalves}

NameInputs ==
    {S(<<"a">>), S(<<"A">>), S(<<"A","b">>), <<>>, S(<<"a",":","b">>),
     S(<<"c","CR","LF","d">>), S(<<"c","CR">>)}

ValueInputs ==
    {S(<<"v">>), S(<<" ","v">>), <<>>, S(<<"x",":","y">>), S(<<" "," ">>),
     S(<<"v","CR","LF","w">>), S(<<"x","CR">>)}

PairInputs == {<<n, v>> : n \in NameInputs, v \in ValueInputs}

\* header collections: sequences of (name, value) pairs
HeaderInputs == UNION {[1..n -> PairInputs] : n \in 0..MaxHeaderPairs}

\* the statuses xhr.status may hold after send: 0 and the three-digit codes
StatusInputs == {0, 100, 101, 199, 200, 204, 299, 301, 399, 400, 404, 500, 599}

HostOutcomes ==
    {Outcome(throws, status, response) :
        throws \in BOOLEAN, status \in StatusInputs, response \in {<<>>, Hello}}

FnInit ==
    /\ ClientInit
    /\ host_has_xhr = FALSE
    /\ arrow = ArrowIdle
    /\ fn_ret = NotApplied
    /\ \/ fn_op = "NormalizeUrl" /\ fn_arg \in [url : UrlInputs, origin : OriginInputs]
       \/ fn_op = "wire" /\ fn_arg \in Payloads
       \/ fn_op = "wire_len" /\ fn_arg \in LenInputs
       \/ fn_op = "headers" /\ fn_arg \in HeaderInputs
       \/ fn_op = "HostResult" /\ fn_arg \in HostOutcomes

ApplyNormalizeUrl ==
    /\ fn_op = "NormalizeUrl" /\ ~fn_ret.applied
    /\ fn_ret' = [applied |-> TRUE, mid |-> <<>>,
                  value |-> NormalizeUrl(fn_arg.url, fn_arg.origin)]
    /\ UNCHANGED <<clientVars, arrowVars, fn_op, fn_arg>>

\* the host encodes the payload, the bridge reads it back
ApplyWire ==
    /\ fn_op = "wire" /\ ~fn_ret.applied
    /\ \E o \in ReadPayload(encode_wire(fn_arg)) :
          fn_ret' = [applied |-> TRUE, mid |-> encode_wire(fn_arg), value |-> o]
    /\ UNCHANGED <<clientVars, arrowVars, fn_op, fn_arg>>

\* the host writes the length prefix, the bridge reads it back
ApplyWireLen ==
    /\ fn_op = "wire_len" /\ ~fn_ret.applied
    /\ fn_ret' = [applied |-> TRUE, mid |-> EncodeLen(fn_arg),
                  value |-> DecodeLen(EncodeLen(fn_arg))]
    /\ UNCHANGED <<clientVars, arrowVars, fn_op, fn_arg>>

\* the header collection is written as text, the Head decoder parses it
ApplyParseHeaders ==
    /\ fn_op = "headers" /\ ~fn_ret.applied
    /\ fn_ret' = [applied |-> TRUE, mid |-> HeaderBlock(fn_arg),
                  value |-> ParseHeaders(HeaderBlock(fn_arg))]
    /\ UNCHANGED <<clientVars, arrowVars, fn_op, fn_arg>>

\* a sync primitive after xhr.send: the pointer it returns and the block behind it
ApplyHostResult ==
    /\ fn_op = "HostResult" /\ ~fn_ret.applied
    /\ LET hr == HostResult([heap |-> heap, trace |-> <<>>], fn_arg, 1)
       IN  fn_ret' = [applied |-> TRUE,
                      mid |-> IF hr.ptr = NULL THEN <<>> ELSE hr.heap[hr.ptr].data,
                      value |-> hr.ptr]
    /\ UNCHANGED <<clientVars, arrowVars, fn_op, fn_arg>>

NextFn ==
    \/ ApplyNormalizeUrl
    \/ ApplyWire
    \/ ApplyWireLen
    \/ ApplyParseHeaders
    \/ ApplyHostResult

SpecFn == FnInit /\ [][NextFn]_vars

-----------------------------------------------------------------------------
(* The ingestion helper, called on one connection *)

\* the number of calls of the helper
MaxArrowCalls == 2

Connections == {NULL, 1}

TableNames ==
    {[null |-> TRUE, str |-> <<>>],
     [null |-> FALSE, str |-> S(<<"t">>)],
     [null |-> FALSE, str |-> S(<<"u">>)]}

IpcBuffers == {NULL, 1}

BufferLengths == {0, 8}

\* what the library calls of one call of the helper return
LibOutcomes ==
    [init_rc : ErrorCodes, reader_rc : ErrorCodes,
     scan : DuckDBStates, create : DuckDBStates, drop : DuckDBStates]

\* one call of the helper, from its entry to its return
InsertArrowIpc(connection, table_name, ipc_buffer, buffer_length, lib) ==
    LET r == duckdb_wasm_insert_arrow_ipc([views |-> arrow.views, tables |-> arrow.tables],
                                          connection, table_name, ipc_buffer,
                                          buffer_length, lib)
    IN  /\ arrow.calls < MaxArrowCalls
        /\ arrow' = [calls |-> arrow.calls + 1,
                     views |-> r.m.views, tables |-> r.m.tables,
                     connection |-> connection, table_name |-> table_name,
                     ipc_buffer |-> ipc_buffer, buffer_length |-> buffer_length,
                     buf |-> r.m.buf, input |-> r.m.input, stream |-> r.m.stream,
                     trace |-> r.m.trace, ret |-> r.ret]
        /\ UNCHANGED <<clientVars, fnVars>>

ArrowInit ==
    /\ ClientInit
    /\ host_has_xhr = FALSE
    /\ fn_op = "none"
    /\ fn_arg = <<>>
    /\ fn_ret = NotApplied
    /\ arrow = ArrowIdle

NextArrow ==
    \E connection \in Connections, table_name \in TableNames,
       ipc_buffer \in IpcBuffers, buffer_length \in BufferLengths, lib \in LibOutcomes :
        InsertArrowIpc(connection, table_name, ipc_buffer, buffer_length, lib)

SpecArrow == ArrowInit /\ [][NextArrow]_vars

-----------------------------------------------------------------------------
(* Properties *)

\* the positions of the events ev in a trace
Positions(tr, ev) == {i \in 1..Len(tr) : tr[i].ev = ev}

\* the position of the only event ev of a trace that has one
Position(tr, ev) == CHOOSE i \in Positions(tr, ev) : TRUE

\* the pointer the host call of a finished dispatch returned
Returned(rec) == rec.trace[Position(rec.trace, "host_return")].a

(* C1: every dispatch, of any verb and in either transport mode, ends with    *)
(* exactly one response and never traps; the response has the not-found       *)
(* status and a non-empty reason when the host call returned null and the     *)
(* success status otherwise, and no other status occurs.                      *)
C1_OneResponsePerDispatch ==
    \A d \in Dispatches :
        LET rec == disp[d] IN
        /\ rec.pc \in {"idle", "host", "done"}
        /\ rec.pc \in {"idle", "host"} => Positions(rec.trace, "return") = {}
        /\ rec.pc = "done" =>
              /\ Cardinality(Positions(rec.trace, "return")) = 1
              /\ Cardinality(Positions(rec.trace, "host_return")) = 1
              /\ rec.res.status \in {NotFound_404, OK_200}
              /\ Returned(rec) = NULL =>
                    rec.res.status = NotFound_404 /\ rec.res.reason # ""
              /\ Returned(rec) # NULL => rec.res.status = OK_200

C1_Witness ==
    \E d \in Dispatches :
        /\ disp[d].pc = "done" /\ disp[d].verb = "Delete" /\ ~use_sync_xhr
        /\ Returned(disp[d]) = NULL /\ disp[d].res.status = NotFound_404

\* the addresses a dispatch allocated before its host call
ArgumentBuffers(tr) ==
    {tr[i].a : i \in {j \in Positions(tr, "malloc") : j < Position(tr, "host_call")}}

(* C2: the pointer array, every header name and value buffer and the body     *)
(* copy of a dispatch are allocated before the host call and stay allocated   *)
(* while it is pending; when the dispatch has ended each has been freed       *)
(* exactly once, after the host call returned and before the dispatch         *)
(* returned, whether the host returned a buffer or null; no free hits a block *)
(* that is not allocated and no block of the dispatch is left on the heap.    *)
C2_BuffersFreedOnce ==
    \A d \in Dispatches :
        LET rec == disp[d]
            tr == rec.trace
        IN
        /\ rec.pc \in {"host", "done"} =>
              /\ Cardinality(ArgumentBuffers(tr)) =
                    1 + 2 * Len(rec.headers) + (IF rec.payload # NULL THEN 1 ELSE 0)
              /\ rec.header_array \in ArgumentBuffers(tr)
              /\ rec.payload # NULL => rec.payload \in ArgumentBuffers(tr)
              /\ Positions(tr, "badfree") = {}
        /\ rec.pc = "host" =>
              /\ Positions(tr, "free") = {}
              /\ \A a \in ArgumentBuffers(tr) : heap[a].used /\ heap[a].owner = d
        /\ rec.pc = "done" =>
              /\ \A a \in ArgumentBuffers(tr) :
                    /\ Cardinality({i \in Positions(tr, "free") : tr[i].a = a}) = 1
                    /\ \A i \in Positions(tr, "free") :
                          tr[i].a = a => /\ i > Position(tr, "host_return")
                                         /\ i < Position(tr, "return")
              /\ \A a \in Addr : ~(heap[a].used /\ heap[a].owner = d)

C2_Witness ==
    \E d \in Dispatches :
        /\ disp[d].pc = "done" /\ disp[d].verb = "Post"
        /\ disp[d].payload # NULL /\ Len(disp[d].headers) = 2
        /\ Returned(disp[d]) = NULL
        /\ Cardinality(Positions(disp[d].trace, "free")) = 6

(* C3: the capability probe is called exactly once per client, by the         *)
(* constructor, and the transport mode it set never changes afterwards,       *)
(* whatever calls follow and however their host calls end.                    *)
C3_ProbedOnce ==
    /\ [](IF constructed THEN probe_calls = 1 ELSE probe_calls = 0)
    /\ [][constructed => use_sync_xhr' = use_sync_xhr /\ probe_calls' = probe_calls]_vars

C3_Witness ==
    /\ constructed /\ probe_calls = 1 /\ calls = 2
    /\ \E d \in Dispatches :
          disp[d].pc = "done" /\ disp[d].res.status = NotFound_404

\* a Get whose host call returned the wire buffer wire answers with body
GetAnswers(wire, body) ==
    \A d \in Dispatches :
        LET rec == disp[d] IN
        (rec.verb = "Get" /\ rec.pc \in {"done", "trapped"} /\ rec.wire = wire) =>
            /\ rec.pc = "done"
            /\ rec.res.status = OK_200
            /\ rec.res.body = body
            /\ rec.handler_calls = IF rec.content_handler THEN <<body>> ELSE <<>>

(* C4, as stated: a Get whose host call returns the bytes 0,0,0,5 followed by *)
(* "hello" yields a success response with body "hello", and a supplied        *)
(* handler is called exactly once with those 5 bytes.                         *)
C4_AsStated == GetAnswers(<<0, 0, 0, 5>> \o Hello, Hello)

(* C4, amended: a Get whose host call returns the bytes 5,0,0,0 (the length 5 *)
(* least significant byte first) followed by "hello" yields a success         *)
(* response with body "hello", and a supplied handler is called exactly once  *)
(* with those 5 bytes.                                                        *)
C4_LittleEndianHello == GetAnswers(<<5, 0, 0, 0>> \o Hello, Hello)

C4_Witness ==
    \E d \in Dispatches :
        /\ disp[d].pc = "done" /\ disp[d].verb = "Get" /\ disp[d].content_handler
        /\ disp[d].wire = <<5, 0, 0, 0>> \o Hello
        /\ disp[d].handler_calls = <<Hello>>

(* C5: what the bridge decodes from the buffer the host encodes for a payload *)
(* is the payload, read within the buffer; and the length prefix the host     *)
(* writes for a length below 2^32 decodes to that length.                     *)
C5_WireRoundTrip ==
    fn_ret.applied =>
        /\ fn_op = "wire" =>
              /\ ~fn_ret.value.trap /\ ~fn_ret.value.oob
              /\ fn_ret.value.bytes = fn_arg
              /\ Len(fn_ret.mid) = 4 + Len(fn_arg)
        /\ fn_op = "wire_len" =>
              /\ fn_ret.value = fn_arg
              /\ \A i \in 1..4 : fn_ret.mid[i] \in 0..255

C5_Witness ==
    /\ fn_ret.applied /\ fn_op = "wire_len"
    /\ fn_arg = [hi |-> 65535, lo |-> 256]
    /\ fn_ret.mid = <<0, 1, 255, 255>>

\* the number of leading spaces of a value
LeadingSpaces(v) ==
    CHOOSE k \in 0..Len(v) :
        /\ \A i \in 1..k : v[i] = 32
        /\ k < Len(v) => v[k + 1] # 32

\* a value without its leading spaces
Trimmed(v) == SubSeq(v, LeadingSpaces(v) + 1, Len(v))

\* the pairs of a header collection, values trimmed
TrimmedPairs(H) == {<<H[i][1], Trimmed(H[i][2])>> : i \in 1..Len(H)}

Contains(s, pat) ==
    \E i \in 0..(Len(s) - Len(pat)) : SubSeq(s, i + 1, i + Len(pat)) = pat

\* a name with its capital letters made small
Folded(name) == [i \in 1..Len(name) |-> IF name[i] >= 65 /\ name[i] <= 90
                                         THEN name[i] + 32 ELSE name[i]]

\* no name holds a colon, neither a name nor a value holds CR LF, and no two
\* names are the same but for the case of their letters
WellFormed(H) ==
    /\ \A i \in 1..Len(H) :
          /\ ~Contains(H[i][1], <<58>>)
          /\ ~Contains(H[i][1], <<13, 10>>)
          /\ ~Contains(H[i][2], <<13, 10>>)
    /\ \A i, j \in 1..Len(H) : i # j => Folded(H[i][1]) # Folded(H[j][1])

(* C6, as stated: for every header collection, decoding its text, one         *)
(* "Name: Value\r\n" line per pair, gives back its pairs with the leading     *)
(* spaces of the values removed.                                              *)
C6_AsStated ==
    (fn_ret.applied /\ fn_op = "headers") => fn_ret.value = TrimmedPairs(fn_arg)

(* C6, amended: for every header collection in which no name contains a       *)
(* colon, neither a name nor a value contains CR LF and no two names are      *)
(* equal ignoring case, decoding its text, one "Name: Value\r\n" line per     *)
(* pair, gives back its pairs with the leading spaces of the values removed.  *)
C6_WellFormedRoundTrip ==
    (fn_ret.applied /\ fn_op = "headers" /\ WellFormed(fn_arg)) =>
        fn_ret.value = TrimmedPairs(fn_arg)

C6_Witness ==
    /\ fn_ret.applied /\ fn_op = "headers" /\ WellFormed(fn_arg)
    /\ Len(fn_arg) = 2
    /\ fn_arg[1] = <<S(<<"A","b">>), S(<<" ","v">>)>>
    /\ fn_arg[2] = <<S(<<"c","CR">>), S(<<"x",":","y">>)>>
    /\ fn_ret.value = {<<S(<<"A","b">>), S(<<"v">>)>>, <<S(<<"c","CR">>), S(<<"x",":","y">>)>>}

HasPrefix(s, p) == Len(p) <= Len(s) /\ \A i \in 1..Len(p) : s[i] = p[i]

Http == S(<<"h","t","t","p",":","/","/">>)

Https == S(<<"h","t","t","p","s",":","/","/">>)

\* the url after the origin rule
Rooted(url, origin) ==
    IF url # <<>> /\ url[1] = 47 THEN origin \o url ELSE url

(* C7: a url that begins with "/" gets the origin in front, and a result that *)
(* then begins with neither "http://" nor "https://" gets "https://" in       *)
(* front; so ("/foo", "https://h") and ("h/foo", "https://h") give            *)
(* "https://h/foo" and ("http://x/y", "https://h") gives "http://x/y"; every  *)
(* url, the empty one too, has a result.                                      *)
C7_NormalizeUrl ==
    (fn_ret.applied /\ fn_op = "NormalizeUrl") =>
        LET url == fn_arg.url
            origin == fn_arg.origin
            rooted == Rooted(url, origin)
            https_h == S(<<"h","t","t","p","s",":","/","/","h">>)
        IN
        /\ (HasPrefix(rooted, Http) \/ HasPrefix(rooted, Https)) => fn_ret.value = rooted
        /\ ~(HasPrefix(rooted, Http) \/ HasPrefix(rooted, Https)) =>
              fn_ret.value = Https \o rooted
        /\ (url = S(<<"/","f","o","o">>) /\ origin = https_h) =>
              fn_ret.value = S(<<"h","t","t","p","s",":","/","/","h","/","f","o","o">>)
        /\ (url = S(<<"h","/","f","o","o">>) /\ origin = https_h) =>
              fn_ret.value = S(<<"h","t","t","p","s",":","/","/","h","/","f","o","o">>)
        /\ (url = S(<<"h","t","t","p",":","/","/","x","/","y">>) /\ origin = https_h) =>
              fn_ret.value = S(<<"h","t","t","p",":","/","/","x","/","y">>)
        /\ url = <<>> => fn_ret.value = Https

C7_Witness ==
    /\ fn_ret.applied /\ fn_op = "NormalizeUrl"
    /\ fn_arg.url = S(<<"/","f","o","o">>)
    /\ fn_arg.origin = S(<<"h","t","t","p","s",":","/","/","h">>)
    /\ fn_ret.value = S(<<"h","t","t","p","s",":","/","/","h","/","f","o","o">>)

\* the name a request header must reach the host request under
Installed(name) ==
    CASE name = S(<<"H","o","s","t">>) -> S(<<"X","-","H","o","s","t","-","O","v","e","r","r","i","d","e">>)
      [] name = S(<<"U","s","e","r","-","A","g","e","n","t">>) -> S(<<"X","-","U","s","e","r","-","A","g","e","n","t">>)
      [] OTHER -> name

(* C8: in both transport modes and for the head and the general primitive,    *)
(* the host request carries one header per request header, in order: "Host"   *)
(* as "X-Host-Override", "User-Agent" as "X-User-Agent", every other name as  *)
(* it is, each with its value; no header is installed as "Host" or            *)
(* "User-Agent".                                                              *)
C8_HeaderRenaming ==
    \A d \in Dispatches :
        LET rec == disp[d] IN
        rec.pc # "idle" =>
            /\ rec.hostreq.primitive =
                  IF rec.verb = "Head"
                  THEN (IF use_sync_xhr THEN "em_sync_head_request" ELSE "em_async_head_request")
                  ELSE (IF use_sync_xhr THEN "em_sync_request" ELSE "em_async_request")
            /\ Len(rec.hostreq.headers) = Len(rec.headers)
            /\ \A i \in 1..Len(rec.headers) :
                  /\ rec.hostreq.headers[i][1] = Installed(rec.headers[i][1])
                  /\ rec.hostreq.headers[i][2] = rec.headers[i][2]
                  /\ rec.hostreq.headers[i][1] # S(<<"H","o","s","t">>)
                  /\ rec.hostreq.headers[i][1] # S(<<"U","s","e","r","-","A","g","e","n","t">>)

C8_Witness ==
    \E d \in Dispatches :
        /\ disp[d].pc = "host" /\ use_sync_xhr /\ disp[d].verb = "Put"
        /\ disp[d].headers = MixedHeaders
        /\ disp[d].hostreq.headers[1][1] = S(<<"h","o","s","t">>)
        /\ disp[d].hostreq.headers[3][1] = S(<<"X","-","U","s","e","r","-","A","g","e","n","t">>)

(* C9: a Head whose host call returned null answers with the not-found        *)
(* status, a non-empty reason, no headers and an empty body.                  *)
C9_HeadNull ==
    \A d \in Dispatches :
        LET rec == disp[d] IN
        (rec.verb = "Head" /\ rec.pc = "done" /\ Returned(rec) = NULL) =>
            /\ rec.res.status = NotFound_404
            /\ rec.res.reason # ""
            /\ rec.res.headers = {}
            /\ rec.res.body = <<>>

C9_Witness ==
    \E d \in Dispatches :
        /\ disp[d].verb = "Head" /\ disp[d].pc = "done" /\ Returned(disp[d]) = NULL
        /\ use_sync_xhr /\ disp[d].res.status = NotFound_404

(* C10: the step that ends a Post whose host call succeeded appends the       *)
(* response body to buffer_out; the step that ends a Post whose host call     *)
(* returned null, the steps of Get, Put, Delete and Head, and every other     *)
(* step leave buffer_out as it is.                                            *)
C10_PostAppends ==
    [][IF \E d \in Dispatches :
             /\ disp[d].pc = "host" /\ disp'[d].pc = "done"
             /\ disp[d].verb = "Post" /\ Returned(disp'[d]) # NULL
       THEN \E d \in Dispatches :
             /\ disp[d].pc = "host" /\ disp'[d].pc = "done" /\ disp[d].verb = "Post"
             /\ buffer_out' = buffer_out \o disp'[d].res.body
       ELSE buffer_out' = buffer_out]_vars

C10_Witness ==
    /\ buffer_out = <<7>> \o Hello \o S(<<"o","k">>)
    /\ \E d \in Dispatches :
          /\ disp[d].pc = "done" /\ disp[d].verb = "Post"
          /\ disp[d].res.body = S(<<"o","k">>)

\* the dispatches that take a step
Movers == {d \in Dispatches : disp'[d] # disp[d]}

\* the payload behind the length prefix of a wire buffer
PayloadOf(wire) == SubSeq(wire, 5, Len(wire))

(* C11: in asynchronous mode, with any number of dispatches suspended at the  *)
(* host call and their continuations run in any order: while a dispatch is    *)
(* suspended its argument buffers are allocated, are its own, are no other    *)
(* suspended dispatch's and still hold its header pairs and its body, which   *)
(* are what its host call saw; every step changes only heap blocks that are   *)
(* free or belong to the one dispatch that takes the step, and leaves the     *)
(* other dispatches as they are; a continuation frees only buffers its own    *)
(* dispatch allocated and the wire buffer its own host call returned, and the *)
(* response carries the payload of that wire buffer.                          *)
C11_NoSharedBuffers ==
    /\ [](~use_sync_xhr =>
            \A d \in Dispatches :
                LET rec == disp[d] IN
                rec.pc = "host" =>
                    /\ \A a \in ArgumentBuffers(rec.trace) :
                          /\ heap[a].used /\ heap[a].owner = d
                          /\ \A e \in Dispatches \ {d} :
                                disp[e].pc = "host" => a \notin ArgumentBuffers(disp[e].trace)
                    /\ Len(rec.hostreq.headers) = Len(rec.headers)
                    /\ \A i \in 1..Len(rec.headers) :
                          /\ UTF8ToString(heap, heap[rec.header_array].data[2 * i - 1])
                                = rec.headers[i][1]
                          /\ UTF8ToString(heap, heap[rec.header_array].data[2 * i])
                                = rec.headers[i][2]
                          /\ rec.hostreq.headers[i] =
                                <<Installed(rec.headers[i][1]), rec.headers[i][2]>>
                    /\ IF rec.payload = NULL
                       THEN rec.hostreq.body.null
                       ELSE /\ ~rec.hostreq.body.null
                            /\ rec.hostreq.body.bytes = heap[rec.payload].data)
    /\ [][~use_sync_xhr =>
            /\ Cardinality(Movers) <= 1
            /\ \A a \in Addr :
                  heap'[a] # heap[a] =>
                      \E d \in Movers :
                          /\ heap[a].used => heap[a].owner = d
                          /\ heap'[a].used => heap'[a].owner = d
            /\ \A d \in Dispatches, info \in PostInfos \cup PutInfos :
                  (Post(d, info) \/ Put(d, info)) =>
                      disp'[d].hostreq.body =
                          IF ~info.buffer_in_null /\ info.buffer_in_len > 0
                          THEN [null |-> FALSE, bytes |-> info.buffer_in]
                          ELSE [null |-> TRUE, bytes |-> <<>>]
            /\ \A d \in Dispatches :
                  (disp[d].pc = "host" /\ disp'[d].pc = "done") =>
                      LET rec == disp'[d]
                          tr == rec.trace
                          p == Returned(rec)
                      IN  /\ \A i \in Positions(tr, "free") \cup Positions(tr, "badfree") :
                                tr[i].a \in ArgumentBuffers(tr) \cup {p}
                          /\ p # NULL =>
                                /\ ~heap[p].used
                                /\ \E i \in Positions(tr, "malloc") :
                                      /\ tr[i].a = p
                                      /\ i > Position(tr, "host_call")
                                      /\ i < Position(tr, "host_return")
                                /\ rec.verb # "Head" => rec.res.body = PayloadOf(rec.wire)
                                /\ rec.verb = "Head" =>
                                      rec.res.headers = ParseHeaders(PayloadOf(rec.wire))]_vars

C11_Witness ==
    /\ ~use_sync_xhr
    /\ disp[1].pc = "host" /\ disp[1].verb = "Post" /\ disp[1].payload # NULL
    /\ Len(disp[1].headers) = 2
    /\ disp[2].pc = "done" /\ disp[2].verb = "Get" /\ disp[2].res.body = Hello
    /\ Len(disp[2].headers) = 1

(* C12: in both transport modes a call blocks: while the host call is pending *)
(* the dispatch has produced no response, no host return and no return; a     *)
(* dispatch leaves the pending state only by ending, with one host return,    *)
(* then one complete response (a status and, for a buffer, the whole payload  *)
(* decoded); the caller goes on only from an ended dispatch; and, with a host *)
(* that resolves every operation, every started dispatch ends.                *)
C12_Blocking ==
    /\ [](\A d \in Dispatches :
            LET rec == disp[d]
                tr == rec.trace
            IN  /\ rec.pc = "host" =>
                      /\ rec.res = HTTPResponse(0)
                      /\ Positions(tr, "host_return") = {}
                      /\ Positions(tr, "return") = {}
                      /\ Cardinality(Positions(tr, "host_call")) = 1
                /\ rec.pc = "done" =>
                      /\ Cardinality(Positions(tr, "host_return")) = 1
                      /\ Cardinality(Positions(tr, "return")) = 1
                      /\ Position(tr, "host_call") < Position(tr, "host_return")
                      /\ Position(tr, "host_return") < Position(tr, "return")
                      /\ Position(tr, "return") = Len(tr)
                      /\ rec.res.status \in {NotFound_404, OK_200}
                      /\ (rec.res.status = OK_200 /\ rec.verb # "Head") =>
                            rec.res.body = PayloadOf(rec.wire))
    /\ [][\A d \in Dispatches :
            /\ disp[d].pc = "host" => disp'[d].pc \in {"host", "done"}
            /\ (disp[d].pc # "idle" /\ disp'[d].pc = "idle") => disp[d].pc = "done"]_vars
    /\ \A d \in Dispatches : (disp[d].pc = "host") ~> (disp[d].pc = "done")

C12_Witness ==
    /\ ~use_sync_xhr
    /\ \E d \in Dispatches :
          /\ disp[d].pc = "done" /\ disp[d].verb = "Put"
          /\ disp[d].res.status = OK_200 /\ disp[d].res.body = S(<<"o","k">>)
    /\ \E e \in Dispatches : disp[e].pc = "host" /\ disp[e].verb = "Head"

\* the arguments of the last call of the helper are rejected by its validation
Rejected ==
    \/ arrow.connection = NULL
    \/ arrow.table_name.null
    \/ arrow.ipc_buffer = NULL
    \/ arrow.buffer_length = 0

(* C13: a call of duckdb_wasm_insert_arrow_ipc with a null connection, a null *)
(* table name, a null buffer or a zero length returns DuckDBError at once:    *)
(* its only event is the return, so no Arrow object is created, nothing is    *)
(* scanned and no query is run, and the views and tables of the catalog are   *)
(* what they were before the call.                                            *)
C13_InvalidRejected ==
    /\ []((arrow.calls > 0 /\ Rejected) =>
            /\ arrow.ret = DuckDBError
            /\ arrow.trace = <<Event("return", DuckDBError)>>
            /\ arrow.buf = "uninit" /\ arrow.input = "uninit" /\ arrow.stream = "uninit")
    /\ [][(arrow'.calls = arrow.calls + 1 /\ Rejected') =>
             arrow'.views = arrow.views /\ arrow'.tables = arrow.tables]_vars

C13_Witness ==
    /\ arrow.calls = 2 /\ arrow.ret = DuckDBError
    /\ arrow.connection # NULL /\ ~arrow.table_name.null /\ arrow.ipc_buffer # NULL
    /\ arrow.buffer_length = 0
    /\ arrow.tables = {S(<<"t">>)} /\ arrow.table_name.str = S(<<"u">>)

\* the positions of the frees of address a in a trace
FreesOf(tr, a) == {i \in Positions(tr, "free") : tr[i].a = a}

(* C14: a Get, Post, Put or Delete that has ended after its host call         *)
(* returned a buffer has released that buffer exactly once, after the body    *)
(* was copied into the response and, with a content handler, after the        *)
(* handler returned, and before the dispatch returned; the handler of a Get   *)
(* was called exactly once, with the bytes of the response body, between the  *)
(* copy and the release.  No handler is called when the host call returned    *)
(* null, when none was supplied, or for Post, Put and Delete.                 *)
C14_WireReleasedAfterUse ==
    \A d \in Dispatches :
        LET rec == disp[d]
            tr == rec.trace
            p == Returned(rec)
        IN  (rec.pc = "done" /\ rec.verb # "Head") =>
                /\ Cardinality(Positions(tr, "handler")) = Len(rec.handler_calls)
                /\ rec.verb \in {"Post", "Put", "Delete"} => rec.handler_calls = <<>>
                /\ ~rec.content_handler => rec.handler_calls = <<>>
                /\ p = NULL =>
                      /\ rec.handler_calls = <<>>
                      /\ Positions(tr, "copy_body") = {}
                /\ p # NULL =>
                      /\ Cardinality(FreesOf(tr, p)) = 1
                      /\ Positions(tr, "badfree") = {}
                      /\ ~heap[p].used
                      /\ Cardinality(Positions(tr, "copy_body")) = 1
                      /\ \A i \in FreesOf(tr, p) :
                            /\ Position(tr, "copy_body") < i
                            /\ \A j \in Positions(tr, "handler") : j < i
                            /\ i < Position(tr, "return")
                      /\ rec.content_handler =>
                            /\ rec.verb = "Get"
                            /\ rec.handler_calls = <<rec.res.body>>
                            /\ \A j \in Positions(tr, "handler") :
                                  /\ tr[j].a = p
                                  /\ Position(tr, "copy_body") < j

C14_Witness ==
    \E d \in Dispatches :
        /\ disp[d].pc = "done" /\ disp[d].verb = "Get" /\ disp[d].content_handler
        /\ disp[d].headers = RangeHeader
        /\ disp[d].handler_calls = <<Hello>>
        /\ Cardinality(Positions(disp[d].trace, "free")) = 4

\* the host primitive a dispatch must call, by the cached mode and the verb
PrimitiveFor(verb) ==
    IF use_sync_xhr
    THEN (IF verb = "Head" THEN "em_sync_head_request" ELSE "em_sync_request")
    ELSE (IF verb = "Head" THEN "em_async_head_request" ELSE "em_async_request")

\* the events of a trace after its host call returned
AfterReturn(tr) == SubSeq(tr, Position(tr, "host_return") + 1, Len(tr))

(* C15: a dispatch calls one host primitive, once: the primitive of the       *)
(* cached mode (the head primitive for Head, the request primitive for the    *)
(* other verbs), with the method of its verb.  When the call has returned     *)
(* null the dispatch ends with that one call and one return of the host; the  *)
(* step that ends it leaves the host request as it was, allocates nothing     *)
(* and starts no other call.                                                  *)
C15_OneShot ==
    /\ [](\A d \in Dispatches :
            LET rec == disp[d]
                tr == rec.trace
            IN  rec.pc \in {"host", "done"} =>
                    /\ Cardinality(Positions(tr, "host_call")) = 1
                    /\ rec.hostreq.primitive = PrimitiveFor(rec.verb)
                    /\ rec.hostreq.method = rec.method
                    /\ rec.method = CASE rec.verb = "Get" -> "GET"
                                      [] rec.verb = "Head" -> "HEAD"
                                      [] rec.verb = "Post" -> "POST"
                                      [] rec.verb = "Put" -> "PUT"
                                      [] rec.verb = "Delete" -> "DELETE"
                    /\ rec.pc = "host" => Positions(tr, "host_return") = {}
                    /\ rec.pc = "done" =>
                          /\ Cardinality(Positions(tr, "host_return")) = 1
                          /\ Returned(rec) = NULL =>
                                /\ rec.res.status = NotFound_404
                                /\ \A i \in 1..Len(AfterReturn(tr)) :
                                      AfterReturn(tr)[i].ev \in {"free", "return"})
    /\ [][\A d \in Dispatches :
            (disp[d].pc = "host" /\ disp'[d].pc = "done") =>
                /\ disp'[d].hostreq = disp[d].hostreq
                /\ calls' = calls
                /\ use_sync_xhr' = use_sync_xhr]_vars

C15_Witness ==
    \E d \in Dispatches :
        /\ disp[d].pc = "done" /\ disp[d].verb = "Head" /\ ~use_sync_xhr
        /\ Returned(disp[d]) = NULL
        /\ disp[d].hostreq.primitive = "em_async_head_request"
        /\ Len(disp[d].headers) = 0

\* a 2xx or 3xx status
SuccessStatus(status) == status >= 200 /\ status <= 399

LinesOf(block) == Split(block, <<13, 10>>)

HasColon(line) == \E i \in 1..Len(line) : line[i] = 58

\* the position of the first colon of a line that has one
FirstColon(line) ==
    CHOOSE i \in 1..Len(line) : line[i] = 58 /\ \A j \in 1..(i - 1) : line[j] # 58

NameOf(line) == SubSeq(line, 1, FirstColon(line) - 1)

ValueOf(line) == Trimmed(SubSeq(line, FirstColon(line) + 1, Len(line)))

\* the lines with a colon
ColonLines(lines) == {i \in 1..Len(lines) : HasColon(lines[i])}

\* the lines with a colon whose name no earlier line has, ignoring case
FirstOfName(lines) ==
    {i \in ColonLines(lines) :
        \A j \in ColonLines(lines) :
            j < i => Folded(NameOf(lines[j])) # Folded(NameOf(lines[i]))}

\* a Head that has ended after its host call returned a buffer
HeadSucceeded(d) ==
    disp[d].pc = "done" /\ disp[d].verb = "Head" /\ Returned(disp[d]) # NULL

(* C17, as stated: a Head whose host call returned a buffer ends, for every   *)
(* payload, with the success status, an empty body and a header collection    *)
(* holding exactly one entry for each line of the payload that contains a     *)
(* colon: the text before the first colon as name, the text after it without  *)
(* its leading spaces as value; lines without a colon add nothing.            *)
C17_AsStated ==
    \A d \in Dispatches :
        HeadSucceeded(d) =>
            LET lines == LinesOf(PayloadOf(disp[d].wire)) IN
            /\ disp[d].res.status = OK_200
            /\ disp[d].res.body = <<>>
            /\ disp[d].res.headers =
                  {<<NameOf(lines[i]), ValueOf(lines[i])>> : i \in ColonLines(lines)}
            /\ Cardinality(disp[d].res.headers) = Cardinality(ColonLines(lines))

(* C17, amended: a Head whose host call returned a buffer ends, for every     *)
(* payload, with the success status, an empty body and a header collection    *)
(* holding exactly one entry for each line of the payload that contains a     *)
(* colon and whose name differs, ignoring case, from the name of every        *)
(* earlier such line: the text before the first colon as name, the text after *)
(* it without its leading spaces as value; lines without a colon and lines    *)
(* that repeat an earlier name add nothing.                                   *)
C17_FirstOfEachName ==
    \A d \in Dispatches :
        HeadSucceeded(d) =>
            LET lines == LinesOf(PayloadOf(disp[d].wire)) IN
            /\ disp[d].res.status = OK_200
            /\ disp[d].res.body = <<>>
            /\ disp[d].res.headers =
                  {<<NameOf(lines[i]), ValueOf(lines[i])>> : i \in FirstOfName(lines)}
            /\ Cardinality(disp[d].res.headers) = Cardinality(FirstOfName(lines))

C17_Witness ==
    \E d \in Dispatches :
        /\ HeadSucceeded(d) /\ use_sync_xhr
        /\ Len(LinesOf(PayloadOf(disp[d].wire))) = 3
        /\ disp[d].res.headers = {<<S(<<"A">>), S(<<"1">>)>>}

\* the last call of the helper passed the validation
Accepted == arrow.calls > 0 /\ ~Rejected

\* the positions of the events ev about a in the trace of the last call
ArrowPositions(ev, a) ==
    {i \in Positions(arrow.trace, ev) : arrow.trace[i].a = a}

\* the Arrow object that holds the IPC bytes when the last call returns or,
\* if it has been released, held them last
LastOwner ==
    IF ArrowPositions("create", "stream") # {} THEN "stream"
    ELSE IF ArrowPositions("create", "input") # {} THEN "input"
    ELSE "buf"

\* the object that owns the IPC bytes is released once, and nothing else is
ReleasedOnce ==
    /\ Positions(arrow.trace, "badrelease") = {}
    /\ Cardinality(Positions(arrow.trace, "release")) = 1
    /\ Cardinality(ArrowPositions("release", LastOwner)) = 1
    /\ "owner" \notin {arrow.buf, arrow.input, arrow.stream}
    /\ \A i \in Positions(arrow.trace, "release") : i = Len(arrow.trace) - 1

\* the last call got past duckdb_arrow_scan
ScanSucceeded == ArrowPositions("create", view_name) # {}

\* the state of the first query of the last call, the CREATE TABLE
CreateState ==
    arrow.trace[CHOOSE i \in Positions(arrow.trace, "destroy_result") :
                    \A j \in Positions(arrow.trace, "destroy_result") : i <= j].a

\* the DROP VIEW query is run after the CREATE TABLE query
DropIsRun ==
    /\ Cardinality(Positions(arrow.trace, "query")) = 2
    /\ \E i, j \in Positions(arrow.trace, "query") :
          /\ i < j
          /\ arrow.trace[i].a = create_sql(arrow.table_name.str, view_name)
          /\ arrow.trace[j].a = drop_sql

\* the releases, the order of the queries and the returned state of a call
\* that passed the validation
ReleasesAndState ==
    /\ ReleasedOnce
    /\ IF ScanSucceeded
       THEN DropIsRun /\ arrow.ret = CreateState
       ELSE arrow.ret = DuckDBError /\ Positions(arrow.trace, "query") = {}

(* C18, as stated: a call of duckdb_wasm_insert_arrow_ipc that passed the     *)
(* validation has, when it returns, released the Arrow object that owned the  *)
(* IPC bytes (the buffer, the input stream or the array stream) exactly once  *)
(* and no object twice; if the scan succeeded it has run the DROP VIEW query  *)
(* after the CREATE TABLE query and returns the state of the CREATE TABLE     *)
(* query, and the view __ducklings_arrow_tmp is gone; otherwise it returns    *)
(* DuckDBError and has run no query.                                          *)
C18_AsStated ==
    Accepted =>
        /\ ReleasesAndState
        /\ ScanSucceeded => view_name \notin arrow.views

(* C19: for every url and origin, the empty url, the empty origin and an      *)
(* origin without a scheme among them, the result of NormalizeUrl begins with *)
(* "http://" or "https://", and NormalizeUrl of the result, with the same     *)
(* origin, is the result.                                                     *)
C19_NormalizeUrlIdempotent ==
    (fn_ret.applied /\ fn_op = "NormalizeUrl") =>
        /\ HasPrefix(fn_ret.value, Http) \/ HasPrefix(fn_ret.value, Https)
        /\ NormalizeUrl(fn_ret.value, fn_arg.origin) = fn_ret.value

C19_Witness ==
    /\ fn_ret.applied /\ fn_op = "NormalizeUrl"
    /\ fn_arg.url = <<47>> /\ fn_arg.origin = <<104>>
    /\ fn_ret.value = Https \o <<104, 47>>

====
